---- MODULE Spec2Model ----
(***************************************************************************)
(* Verification model of the two GPyTorch example programs                 *)
(*   src/unnamed/part_000  (deep kernel learning regression with KISS-GP)  *)
(*   src/examples/01_Simple_GP_Regression/                                 *)
(*       Spectral_Mixture_GP_Regression.ipynb                              *)
(* and of the engine operations they call (train/eval mode, the settings   *)
(* context managers, the model call, the objective, the optimizer).        *)
(*                                                                         *)
(* Spec     : each notebook run top to bottom (flow = "dkl" or "sm").      *)
(* SpecAPI  : a caller that invokes the operations of a constructed        *)
(*            SpectralMixtureGPModel in any order (flow = "api").          *)
(*                                                                         *)
(* Numerical values that only floating-point linear algebra can produce    *)
(* are abstracted: a hyperparameter group is represented by the number of  *)
(* optimizer updates applied to it, a gradient buffer by the number of     *)
(* backward passes accumulated in it, and the output of the neural         *)
(* network by a nondeterministically chosen small integer matrix.          *)
(***************************************************************************)
EXTENDS Integers, Sequences, FiniteSets, TLC

VARIABLES
    flow,          \* which program runs: "dkl", "sm" or "api"
    pc,            \* position in the notebook
    i,             \* loop variable of the training loop
    training,      \* model.training
    lik_training,  \* likelihood.training
    settings,      \* ambient values of gpytorch.settings
    scopes,        \* stack of the `with` blocks that are open
    grid,          \* inducing grid of the GridInterpolationKernel
    params,        \* hyperparameter groups of the model
    optimizer,     \* param_groups of the optimizer
    grad,          \* .grad buffers of the hyperparameter groups
    feat,          \* forward's feature_extractor(x), while a call runs
    projected,     \* forward's projected_x, while a call runs
    output,        \* result of the latest call of the model
    loss,          \* result of the latest objective evaluation
    call,          \* engine call in flight
    ncalls,        \* objective calls made in the current loop iteration
    err,           \* error surfaced to the caller
    kept,          \* a prediction the caller has kept (preds)
    cg,            \* the conjugate-gradient solve of the engine
    raw,           \* raw (unconstrained) values of the positive parameters
    ds,            \* the data cell: data, X, y and the train/test split
    printed,       \* the losses the training loop has printed, in thousandths
    kernel         \* the spectral-mixture kernel of the model under construction

vars == <<flow, pc, i, training, lik_training, settings, scopes, grid, params,
          optimizer, grad, feat, projected, output, loss, call, ncalls, err,
          kept, cg, raw, ds, printed, kernel>>

(***************************************************************************)
(* Program constants                                                       *)
(***************************************************************************)
training_iterations == 40
training_iter == 100
num_dims == 2
grid_size == 100
FeatDims == 2
documented_iterations == 20   \* "We run 20 iterations of training"
num_mixtures == 4

(***************************************************************************)
(* Bounds of the model                                                     *)
(***************************************************************************)
MaxRows == 2        \* rows of an input batch
MaxFeat == 2        \* network outputs range over 0..MaxFeat
MaxRetries == 2     \* jitter retries of the engine after the first attempt
MaxDepth == 1       \* nesting of `with` blocks of the arbitrary caller
MaxSteps == 1       \* optimizer steps of the arbitrary caller
MaxAccum == 1       \* backward passes the arbitrary caller accumulates
MaxCGIter == 3      \* largest configured iteration limit of a CG solve
MaxTol == 2         \* largest configured tolerance of a CG solve
MaxResidual == 3    \* residual norms range over 0..MaxResidual
MaxRaw == 2         \* raw parameter values range over -MaxRaw..MaxRaw
MaxN == 5           \* rows of the loaded dataset

(***************************************************************************)
(* Data                                                                    *)
(***************************************************************************)
Groups == {"feature_extractor", "covar_module", "mean_module", "likelihood"}

\* parameters owned by the model of each program
ModelParams(f) ==
    IF f = "dkl" THEN Groups ELSE Groups \ {"feature_extractor"}

FeatVals == 0..MaxFeat
FeatBatches ==
    UNION {[1..n -> [1..FeatDims -> FeatVals]] : n \in 1..MaxRows}
NoFeat == <<>>

Inputs == {"train_x", "test_x"}

NoGrid == [num_dims |-> 0, grid_size |-> 0]
NoParams == [g \in {} |-> 0]
NoSettings == [use_toeplitz |-> FALSE, fast_pred_var |-> FALSE]
NoOutput == [kind |-> "none", x |-> "none", w |-> NoParams,
             variance |-> "none", settings |-> NoSettings,
             in_fast_block |-> FALSE]
NoLoss == [set |-> FALSE, w |-> NoParams, mode |-> "none",
           backward |-> FALSE, bw |-> NoParams]
NoKernel == [built |-> FALSE, mixtures |-> 0, inits |-> 0]
NoCall == [op |-> "none", x |-> "none", attempt |-> 0, jitter |-> 0]
\* parameters kept positive: RBF length-scale, ScaleKernel output scale,
\* likelihood noise
Constrained == {"lengthscale", "outputscale", "noise"}
RawValues == -MaxRaw..MaxRaw
InitialRaw == [p \in Constrained |-> 0]

\* the data cell before it has run
NoData == [loaded |-> FALSE, data |-> <<>>, X |-> <<>>, y |-> <<>>,
           train_n |-> 0, train_x |-> <<>>, train_y |-> <<>>,
           test_x |-> <<>>, test_y |-> <<>>]

NoCG == [state |-> "none", max_iter |-> 0, tol |-> 0, k |-> 0, res |-> 0]

Mode == IF training THEN "TRAIN" ELSE "EVAL"


HasExtractor == flow = "dkl"
HasGrid == flow = "dkl"
Iterations == IF flow = "dkl" THEN training_iterations ELSE training_iter

(***************************************************************************)
(* GPRegressionModel.forward: the rescaling of the network's output        *)
(* (part_000 lines 137-138).  A quotient is kept as numerator and          *)
(* denominator; a zero denominator is the NaN that 0/0 produces.           *)
(***************************************************************************)
Rows(F) == DOMAIN F
Cols == 1..FeatDims

\* x.min(0)[0] and x.max(0)[0]: the column-wise minimum and maximum
ColMin(F, c) ==
    CHOOSE m \in {F[r][c] : r \in Rows(F)} : \A r \in Rows(F) : m <= F[r][c]
ColMax(F, c) ==
    CHOOSE m \in {F[r][c] : r \in Rows(F)} : \A r \in Rows(F) : m >= F[r][c]

\* variant: the minimum is a stored number instead of the batch's own
ShiftFeaturesStoredMin(F) ==
    [r \in Rows(F) |-> [c \in Cols |-> F[r][c] - 0]]

\* projected_x = projected_x - projected_x.min(0)[0]
ShiftFeatures(F) ==
    [r \in Rows(F) |-> [c \in Cols |-> F[r][c] - ColMin(F, c)]]

\* variant: the quotient alone, without the factor 2 and the shift by -1
ScaleFeaturesUnit(P) ==
    [r \in Rows(P) |->
        [c \in Cols |-> [num |-> P[r][c], den |-> ColMax(P, c)]]]

\* projected_x = 2 * (projected_x / projected_x.max(0)[0]) - 1
ScaleFeatures(P) ==
    [r \in Rows(P) |->
        [c \in Cols |-> [num |-> 2 * P[r][c] - ColMax(P, c),
                         den |-> ColMax(P, c)]]]

RescaleFeatures(F) == ScaleFeatures(ShiftFeatures(F))

IsNaN(q) == q.den = 0
\* comparisons of a quotient with a positive denominator
QGeqMinusOne(q) == q.den > 0 /\ q.num >= -q.den
QLeqOne(q) == q.den > 0 /\ q.num <= q.den
QIsMinusOne(q) == q.den > 0 /\ q.num = -q.den
QIsOne(q) == q.den > 0 /\ q.num = q.den
QGeqZero(q) == q.den > 0 /\ q.num >= 0

(***************************************************************************)
(* Control: the order of the statements of each notebook.  The arbitrary   *)
(* caller of SpecAPI stays at "api".                                       *)
(***************************************************************************)
After(l) ==
    CASE l = "init_super" -> "init_mean"
      [] l = "init_mean" -> "init_kernel"
      [] l = "init_kernel" -> "init_from_data"
      [] l = "init_from_data" -> "model_train"
      [] l = "model_train" -> "likelihood_train"
      [] l = "likelihood_train" -> "optimizer"
      [] l = "optimizer" -> "mll"
      [] l = "mll" -> IF flow = "dkl" THEN "with_toeplitz" ELSE "zero_grad"
      [] l = "with_toeplitz" -> "zero_grad"
      [] l = "zero_grad" -> "forward"
      [] l = "forward" -> "loss"
      [] l = "loss" -> "backward"
      [] l = "backward" -> "print"
      [] l = "print" -> "step"
      [] l = "exit_train_with" -> "model_eval"
      [] l = "model_eval" -> "likelihood_eval"
      [] l = "likelihood_eval" ->
            IF flow = "dkl" THEN "with_toeplitz_off" ELSE "with_fast"
      [] l = "with_toeplitz_off" -> "with_fast"
      [] l = "with_fast" -> "predict"
      [] l = "predict" -> "exit_pred_with"
      [] l = "exit_pred_with" -> IF flow = "dkl" THEN "mae" ELSE "done"
      [] l = "mae" -> "done"
      [] OTHER -> "done"

At(l) == pc = l \/ pc = "api"
Goto(l) == pc' = IF pc = "api" THEN "api" ELSE l
Idle == call.op = "none" /\ err = "none"

\* SpectralMixtureKernel(num_mixtures=4) followed by initialize_from_data:
\* the kernel of a constructed spectral-mixture model
ConstructedKernel ==
    IF flow = "sm"
    THEN [built |-> TRUE, mixtures |-> num_mixtures, inits |-> 1]
    ELSE NoKernel

\* torch.optim.SGD in the deep-kernel notebook, torch.optim.Adam otherwise
OptimizerKind == IF flow = "dkl" THEN "SGD" ELSE "Adam"

\* variant: only the Gaussian-process hyperparameters are optimized
ParamGroupsGPOnly ==
    IF flow = "dkl"
    THEN <<{"covar_module"}, {"mean_module"}, {"likelihood"}>>
    ELSE <<ModelParams(flow)>>

\* the param_groups handed to the optimizer's constructor
ParamGroups ==
    IF flow = "dkl"
    THEN <<{"feature_extractor"}, {"covar_module"}, {"mean_module"},
           {"likelihood"}>>
    ELSE <<ModelParams(flow)>>

\* GridInterpolationKernel(..., num_dims=2, grid_size=100)
ConstructedGrid ==
    IF HasGrid THEN [num_dims |-> num_dims, grid_size |-> grid_size]
    ELSE NoGrid

(***************************************************************************)
(* State after construction of the model, the likelihood and (dkl) the     *)
(* feature extractor.  The source does not fix the mode of a new model     *)
(* nor the default of use_toeplitz: both are left open.                    *)
(***************************************************************************)
InitCommon ==
    /\ i = 0
    /\ training \in BOOLEAN
    /\ settings \in [use_toeplitz : BOOLEAN, fast_pred_var : {FALSE}]
    /\ scopes = <<>>
    /\ grid = ConstructedGrid
    /\ params = [g \in ModelParams(flow) |-> 0]
    /\ grad = [g \in ModelParams(flow) |-> 0]
    /\ feat = NoFeat
    /\ projected = NoFeat
    /\ output = NoOutput
    /\ loss = NoLoss
    /\ call = NoCall
    /\ ncalls = 0
    /\ err = "none"
    /\ kept = NoOutput
    /\ cg = NoCG
    /\ raw = InitialRaw
    /\ ds = NoData
    /\ printed = <<>>
    /\ kernel = ConstructedKernel

Init ==
    /\ flow \in {"dkl", "sm"}
    /\ pc = "model_train"
    /\ lik_training \in BOOLEAN
    /\ optimizer = <<>>
    /\ InitCommon


(***************************************************************************)
(* Mode switches                                                           *)
(***************************************************************************)
\* model.train()
model_train ==
    /\ At("model_train") /\ Idle
    /\ training' = TRUE
    /\ Goto(After("model_train"))
    /\ UNCHANGED <<kernel, printed, ds, raw, cg, kept, flow, i, lik_training, settings, scopes, grid, params,
                   optimizer, grad, feat, projected, output, loss, call,
                   ncalls, err>>

\* likelihood.train()
likelihood_train ==
    /\ At("likelihood_train") /\ Idle
    /\ lik_training' = TRUE
    /\ Goto(After("likelihood_train"))
    /\ UNCHANGED <<kernel, printed, ds, raw, cg, kept, flow, i, training, settings, scopes, grid, params,
                   optimizer, grad, feat, projected, output, loss, call,
                   ncalls, err>>

\* variant: the call of model.eval() is missing
model_eval_skipped ==
    /\ At("model_eval") /\ Idle
    /\ Goto(After("model_eval"))
    /\ UNCHANGED <<kernel, printed, ds, raw, cg, kept, flow, i, training, lik_training, settings, scopes, grid,
                   params, optimizer, grad, feat, projected, output, loss,
                   call, ncalls, err>>

\* model.eval()
model_eval ==
    /\ At("model_eval") /\ Idle
    /\ training' = FALSE
    /\ Goto(After("model_eval"))
    /\ UNCHANGED <<kernel, printed, ds, raw, cg, kept, flow, i, lik_training, settings, scopes, grid, params,
                   optimizer, grad, feat, projected, output, loss, call,
                   ncalls, err>>

\* likelihood.eval()
likelihood_eval ==
    /\ At("likelihood_eval") /\ Idle
    /\ lik_training' = FALSE
    /\ Goto(After("likelihood_eval"))
    /\ UNCHANGED <<kernel, printed, ds, raw, cg, kept, flow, i, training, settings, scopes, grid, params,
                   optimizer, grad, feat, projected, output, loss, call,
                   ncalls, err>>

(***************************************************************************)
(* Optimizer and objective objects                                         *)
(***************************************************************************)
\* optimizer = torch.optim.SGD([...], lr=0.1) / torch.optim.Adam(...)
make_optimizer ==
    /\ At("optimizer") /\ Idle
    /\ optimizer' = ParamGroups
    /\ Goto(After("optimizer"))
    /\ UNCHANGED <<kernel, printed, ds, raw, cg, kept, flow, i, training, lik_training, settings, scopes, grid,
                   params, grad, feat, projected, output, loss, call,
                   ncalls, err>>

\* mll = gpytorch.mlls.ExactMarginalLogLikelihood(likelihood, model)
make_mll ==
    /\ pc = "mll" /\ Idle
    /\ pc' = After("mll")
    /\ UNCHANGED <<kernel, printed, ds, raw, cg, kept, flow, i, training, lik_training, settings, scopes, grid,
                   params, optimizer, grad, feat, projected, output, loss,
                   call, ncalls, err>>

(***************************************************************************)
(* gpytorch.settings: `with` blocks                                        *)
(***************************************************************************)
Push(name, value) ==
    /\ scopes' = Append(scopes, [name |-> name, prev |-> settings[name]])
    /\ settings' = [settings EXCEPT ![name] = value]

\* leaving the innermost block restores the value found on entry
PopSettings(st, sc) ==
    [st EXCEPT ![sc[Len(sc)].name] = sc[Len(sc)].prev]

RECURSIVE Unwind(_, _)
\* an exception leaves every open block, innermost first
Unwind(st, sc) ==
    IF sc = <<>> THEN st
    ELSE Unwind(PopSettings(st, sc), SubSeq(sc, 1, Len(sc) - 1))

InFastBlock == \E k \in DOMAIN scopes : scopes[k].name = "fast_pred_var"

\* with gpytorch.settings.use_toeplitz(v):
enter_use_toeplitz ==
    /\ Idle
    /\ \E v \in BOOLEAN :
          /\ IF pc = "api" THEN Len(scopes) < MaxDepth
             ELSE pc = (IF v THEN "with_toeplitz" ELSE "with_toeplitz_off")
          /\ Push("use_toeplitz", v)
          /\ Goto(After(IF v THEN "with_toeplitz" ELSE "with_toeplitz_off"))
    /\ UNCHANGED <<kernel, printed, ds, raw, cg, kept, flow, i, training, lik_training, grid, params, optimizer,
                   grad, feat, projected, output, loss, call, ncalls, err>>

\* variant: the prediction cell opens no fast-variance block
enter_fast_pred_var_off ==
    /\ At("with_fast") /\ Idle
    /\ pc = "api" => Len(scopes) < MaxDepth
    /\ Push("use_toeplitz", settings.use_toeplitz)
    /\ Goto(After("with_fast"))
    /\ UNCHANGED <<kernel, printed, ds, raw, cg, kept, flow, i, training, lik_training, grid, params,
                   optimizer, grad, feat, projected, output, loss, call,
                   ncalls, err>>

\* with gpytorch.fast_pred_var():
enter_fast_pred_var ==
    /\ At("with_fast") /\ Idle
    /\ pc = "api" => Len(scopes) < MaxDepth
    /\ Push("fast_pred_var", TRUE)
    /\ Goto(After("with_fast"))
    /\ UNCHANGED <<kernel, printed, ds, raw, cg, kept, flow, i, training, lik_training, grid, params, optimizer,
                   grad, feat, projected, output, loss, call, ncalls, err>>

\* variant: the block ends and the setting keeps the block's value
exit_with_keeps ==
    /\ pc \in {"exit_train_with", "exit_pred_with", "api"} /\ Idle
    /\ scopes # <<>>
    /\ scopes' = SubSeq(scopes, 1, Len(scopes) - 1)
    /\ pc' = IF pc # "api" /\ Len(scopes) = 1 THEN After(pc) ELSE pc
    /\ UNCHANGED <<settings, kernel, printed, ds, raw, cg, kept, flow, i, training, lik_training, grid, params, optimizer,
                   grad, feat, projected, output, loss, call, ncalls, err>>

\* the end of a `with` block: one context manager exits
exit_with ==
    /\ pc \in {"exit_train_with", "exit_pred_with", "api"} /\ Idle
    /\ scopes # <<>>
    /\ settings' = PopSettings(settings, scopes)
    /\ scopes' = SubSeq(scopes, 1, Len(scopes) - 1)
    /\ pc' = IF pc # "api" /\ Len(scopes) = 1 THEN After(pc) ELSE pc
    /\ UNCHANGED <<kernel, printed, ds, raw, cg, kept, flow, i, training, lik_training, grid, params, optimizer,
                   grad, feat, projected, output, loss, call, ncalls, err>>


(***************************************************************************)
(* The model call: output = model(train_x), preds = model(test_x).         *)
(* model_call enters the call and runs forward(); feat and projected are   *)
(* forward's locals and exist while the call is in flight.                 *)
(***************************************************************************)
\* the argument of the call made at each position
CallInputs ==
    IF pc = "forward" THEN {"train_x"}
    ELSE IF pc = "predict" THEN {"test_x"}
    ELSE IF pc = "api" THEN Inputs ELSE {}

\* the feature extractor is an opaque map: any batch of features may come out
ExtractedFeatures == IF HasExtractor THEN FeatBatches ELSE {NoFeat}

\* GPRegressionModel.forward / SpectralMixtureGPModel.forward: projected_x
forward(F) == IF HasExtractor THEN RescaleFeatures(F) ELSE NoFeat

\* TRAIN mode returns the prior; EVAL mode conditions on the training data,
\* which needs the engine's linear solves
CallKind == IF training THEN "prior" ELSE "posterior"

\* variant: the call rebuilds the grid to fit the batch it is given
model_call_regrids ==
    /\ Idle
    /\ \E x \in CallInputs : \E F \in ExtractedFeatures :
          /\ feat' = F
          /\ projected' = forward(F)
          /\ grid' = [grid EXCEPT !.grid_size = Len(F)]
          /\ call' = [op |-> CallKind, x |-> x, attempt |-> 0, jitter |-> 0]
    /\ UNCHANGED <<kernel, printed, ds, raw, cg, kept, flow, pc, i, training, lik_training, settings, scopes,
                   params, optimizer, grad, output, loss, ncalls, err>>

model_call ==
    /\ Idle
    /\ \E x \in CallInputs : \E F \in ExtractedFeatures :
          /\ feat' = F
          /\ projected' = forward(F)
          /\ call' = [op |-> CallKind, x |-> x, attempt |-> 0, jitter |-> 0]
    /\ UNCHANGED <<kernel, printed, ds, raw, cg, kept, flow, pc, i, training, lik_training, settings, scopes,
                   grid, params, optimizer, grad, output, loss, ncalls, err>>

(***************************************************************************)
(* The objective: loss = -mll(output, train_y)                             *)
(***************************************************************************)
mll_call ==
    /\ At("loss") /\ Idle
    /\ output.kind # "none"
    /\ call' = [op |-> "mll", x |-> output.x, attempt |-> 0, jitter |-> 0]
    /\ ncalls' = IF pc = "api" THEN ncalls ELSE ncalls + 1
    /\ UNCHANGED <<kernel, printed, ds, raw, cg, kept, flow, pc, i, training, lik_training, settings, scopes,
                   grid, params, optimizer, grad, feat, projected, output,
                   loss, err>>

(***************************************************************************)
(* The engine's numerical routine (conjugate gradients, Lanczos) inside a  *)
(* call: an attempt succeeds, or fails with a NumericalError and is        *)
(* retried with more jitter, or fails for the last time.  Returning the    *)
(* prior runs no numerical routine.                                        *)
(***************************************************************************)
InCall == call.op # "none" /\ err = "none"

\* the features forward hands to the kernel have FeatDims columns, the grid
\* of the kernel has num_dims dimensions
DimsMismatch == HasGrid /\ grid.num_dims # FeatDims
Numerical == call.op \in {"mll", "posterior"}

\* variant: LOVE is substituted for the exact variance in every call
VariancePathAlwaysLove(st) == "love"

\* variant: the Toeplitz setting also selects the approximate variance
VariancePathToeplitz(st) ==
    IF st.fast_pred_var \/ st.use_toeplitz THEN "love" ELSE "exact"

\* variant: LOVE whenever any settings block is open
VariancePathAnyBlock(st) == IF scopes # <<>> THEN "love" ELSE "exact"

\* posterior variance: LOVE when fast_pred_var is on, else exact
VariancePath(st) == IF st.fast_pred_var THEN "love" ELSE "exact"

\* the value the call in flight returns
CallResult ==
    [kind |-> call.op, x |-> call.x, w |-> params,
     variance |-> IF call.op = "posterior" THEN VariancePath(settings)
                  ELSE "none",
     settings |-> IF call.op = "posterior" THEN settings ELSE NoSettings,
     in_fast_block |-> call.op = "posterior" /\ InFastBlock]

call_return ==
    /\ InCall
    /\ ~DimsMismatch
    /\ IF call.op = "mll"
       THEN /\ loss' = [set |-> TRUE, w |-> params, mode |-> Mode,
                        backward |-> FALSE, bw |-> NoParams]
            /\ output' = output
            /\ Goto(After("loss"))
       ELSE /\ output' = CallResult
            /\ loss' = loss
            /\ Goto(After(pc))
    /\ call' = NoCall
    /\ feat' = NoFeat
    /\ projected' = NoFeat
    /\ UNCHANGED <<kernel, printed, ds, raw, cg, kept, flow, i, training, lik_training, settings, scopes, grid,
                   params, optimizer, grad, ncalls, err>>

\* the jitter schedule: each retry adds one more unit of diagonal inflation
NextJitter(j) == j + 1

\* variant: the retry repeats the attempt with the jitter that failed
numerical_retry_same_jitter ==
    /\ InCall /\ Numerical
    /\ ~DimsMismatch
    /\ call.attempt < MaxRetries
    /\ call' = [call EXCEPT !.attempt = @ + 1]
    /\ UNCHANGED <<kernel, printed, ds, raw, cg, kept, flow, pc, i, training, lik_training, settings, scopes,
                   grid, params, optimizer, grad, feat, projected, output,
                   loss, ncalls, err>>

\* the next jitter is larger than the one that failed
numerical_retry ==
    /\ InCall /\ Numerical
    /\ ~DimsMismatch
    /\ call.attempt < MaxRetries
    /\ call' = [call EXCEPT !.attempt = @ + 1, !.jitter = NextJitter(@)]
    /\ UNCHANGED <<kernel, printed, ds, raw, cg, kept, flow, pc, i, training, lik_training, settings, scopes,
                   grid, params, optimizer, grad, feat, projected, output,
                   loss, ncalls, err>>

\* variant: the loop catches the error and stays where it is
swallowed == pc' = pc

\* train() has no handler around the objective call, nor has the prediction
\* cell: the exception ends the run of the notebook
uncaught == Goto("error")

\* the error leaves the call and every open `with` block
numerical_fatal ==
    /\ InCall /\ Numerical
    /\ ~DimsMismatch
    /\ call.attempt = MaxRetries
    /\ err' = "NumericalError"
    /\ call' = NoCall
    /\ feat' = NoFeat
    /\ projected' = NoFeat
    /\ settings' = Unwind(settings, scopes)
    /\ scopes' = <<>>
    /\ uncaught
    /\ UNCHANGED <<kernel, printed, ds, raw, cg, kept, flow, i, training, lik_training, grid, params, optimizer,
                   grad, output, loss, ncalls>>

\* covar_x = self.covar_module(projected_x): forward has run the network and
\* the rescaling when the kernel is handed features whose number of columns
\* is not the number of dimensions of its grid
kernel_dims_mismatch ==
    /\ InCall
    /\ call.op \in {"prior", "posterior"}
    /\ DimsMismatch
    /\ err' = "ConfigurationError"
    /\ call' = NoCall
    /\ feat' = NoFeat
    /\ projected' = NoFeat
    /\ settings' = Unwind(settings, scopes)
    /\ scopes' = <<>>
    /\ uncaught
    /\ UNCHANGED <<kernel, printed, ds, raw, cg, kept, flow, i, training, lik_training, grid, params,
                   optimizer, grad, output, loss, ncalls>>

(***************************************************************************)
(* The rest of a training iteration                                        *)
(***************************************************************************)
\* variant: zero_grad leaves the gradient buffers as they are
optimizer_zero_grad_keeps ==
    /\ At("zero_grad") /\ Idle
    /\ ncalls' = 0
    /\ Goto(After("zero_grad"))
    /\ UNCHANGED <<kernel, printed, ds, raw, cg, kept, flow, i, training, lik_training, settings, scopes, grid,
                   params, optimizer, grad, feat, projected, output, loss, call,
                   err>>

\* optimizer.zero_grad()
optimizer_zero_grad ==
    /\ At("zero_grad") /\ Idle
    /\ grad' = [g \in DOMAIN grad |-> 0]
    /\ ncalls' = 0
    /\ Goto(After("zero_grad"))
    /\ UNCHANGED <<kernel, printed, ds, raw, cg, kept, flow, i, training, lik_training, settings, scopes, grid,
                   params, optimizer, feat, projected, output, loss, call,
                   err>>

\* variant: the backward pass applies the gradients itself
loss_backward_updates ==
    /\ At("backward") /\ Idle
    /\ loss.set
    /\ pc = "api" => \A g \in DOMAIN grad : grad[g] < MaxAccum
    /\ grad' = [g \in DOMAIN grad |-> grad[g] + 1]
    /\ params' = [g \in DOMAIN params |-> params[g] + 1]
    /\ loss' = [loss EXCEPT !.backward = TRUE, !.bw = params]
    /\ Goto(After("backward"))
    /\ UNCHANGED <<kernel, printed, ds, raw, cg, kept, flow, i, training, lik_training, settings, scopes, grid,
                   optimizer, feat, projected, output, call, ncalls, err>>

\* loss.backward(): gradients are added to the .grad buffers
loss_backward ==
    /\ At("backward") /\ Idle
    /\ loss.set
    /\ pc = "api" => \A g \in DOMAIN grad : grad[g] < MaxAccum
    /\ grad' = [g \in DOMAIN grad |-> grad[g] + 1]
    /\ loss' = [loss EXCEPT !.backward = TRUE, !.bw = params]
    /\ Goto(After("backward"))
    /\ UNCHANGED <<kernel, printed, ds, raw, cg, kept, flow, i, training, lik_training, settings, scopes, grid,
                   params, optimizer, feat, projected, output, call, ncalls,
                   err>>

\* the losses of the recorded runs, in thousandths, as the output cells of
\* the two notebooks show them
RecordedLossDKL ==
    <<942, 925, 905, 878, 856, 831, 806, 784, 762, 738,
      717, 694, 672, 649, 626, 603, 580, 557, 536, 514,
      490, 468, 448, 425, 400, 379, 358, 338, 317, 292,
      275, 256, 239, 237, 215, 201, 181, 156, 128, 111>>

RecordedLossSM ==
    <<1339, 1303, 1248, 1219, 1170, 1109, 1088, 1059, 1008, 953,
      906, 887, 811, 762, 715, 683, 639, 585, 542, 498,
      467, 402, 349, 313, 251, 214, 172, 148, 122, 36,
      -20, -73, -102, -163, -146, -174, -216, -289, -393, -430,
      -331, -388, -504, -629, -570, -578, -728, -787, -186, -532,
      -850, -914, -879, -815, -804, -808, -850, -939, -1047, -1128,
      -1181, -1210, -1181, -1044, -988, -1113, -1085, -1284, -1252, -1305,
      -1318, -1300, -1312, -1365, -1418, -1484, -1564, -1599, -1678, -1731,
      -1793, -1790, -1801, -1832, -1916, -1974, -2030, -2108, -2166, -2152,
      -2119, -2088, -2101, -2174, -2247, -2223, -1789, -2284, -2083, -2164>>

RecordedLoss == IF flow = "dkl" THEN RecordedLossDKL ELSE RecordedLossSM

\* variant: every iteration prints the loss of the first one
print_loss_stale ==
    /\ pc = "print" /\ Idle
    /\ pc' = After("print")
    /\ printed' = Append(printed, RecordedLoss[1])
    /\ UNCHANGED <<kernel, ds, raw, cg, kept, flow, i, training, lik_training, settings, scopes, grid,
                   params, optimizer, grad, feat, projected, output, loss,
                   call, ncalls, err>>

\* print('Iter %d/%d - Loss: %.3f' % (i + 1, ..., loss.item()))
print_loss ==
    /\ pc = "print" /\ Idle
    /\ pc' = After("print")
    /\ printed' = Append(printed, RecordedLoss[i + 1])
    /\ UNCHANGED <<kernel, ds, raw, cg, kept, flow, i, training, lik_training, settings, scopes, grid,
                   params, optimizer, grad, feat, projected, output, loss,
                   call, ncalls, err>>

Optimized == UNION {optimizer[k] : k \in DOMAIN optimizer}

\* variant: the step updates the first param group only
StepParamsFirstGroup(w) ==
    [g \in DOMAIN w |->
        IF g \in optimizer[1] /\ grad[g] > 0 THEN w[g] + 1 ELSE w[g]]

\* one update of every parameter that is in a param group and has a gradient
StepParams(w) ==
    [g \in DOMAIN w |->
        IF g \in Optimized /\ grad[g] > 0 THEN w[g] + 1 ELSE w[g]]

\* variant: the step also puts the model back into training mode
optimizer_step_sets_mode ==
    /\ At("step") /\ Idle
    /\ pc = "api" => \A g \in DOMAIN params : params[g] < MaxSteps
    /\ params' = StepParams(params)
    /\ training' = TRUE
    /\ i' = IF pc = "api" THEN i ELSE i + 1
    /\ pc' = IF pc = "api" THEN "api"
             ELSE IF i + 1 < Iterations THEN "zero_grad"
             ELSE IF flow = "dkl" THEN "exit_train_with" ELSE "model_eval"
    /\ UNCHANGED <<kernel, printed, ds, raw, cg, kept, flow, lik_training, settings, scopes, grid, optimizer,
                   grad, feat, projected, output, loss, call, ncalls, err>>

\* optimizer.step(), and the loop's next iteration or its end
optimizer_step ==
    /\ At("step") /\ Idle
    /\ pc = "api" => \A g \in DOMAIN params : params[g] < MaxSteps
    /\ params' = StepParams(params)
    /\ i' = IF pc = "api" THEN i ELSE i + 1
    /\ pc' = IF pc = "api" THEN "api"
             ELSE IF i + 1 < Iterations THEN "zero_grad"
             ELSE IF flow = "dkl" THEN "exit_train_with" ELSE "model_eval"
    /\ UNCHANGED <<kernel, printed, ds, raw, cg, kept, flow, training, lik_training, settings, scopes, grid,
                   optimizer, grad, feat, projected, output, loss, call,
                   ncalls, err>>

\* print('Test MAE: {}'.format(...))
print_mae ==
    /\ pc = "mae" /\ Idle
    /\ pc' = After("mae")
    /\ UNCHANGED <<kernel, printed, ds, raw, cg, kept, flow, i, training, lik_training, settings, scopes, grid,
                   params, optimizer, grad, feat, projected, output, loss,
                   call, ncalls, err>>

(***************************************************************************)
(* The notebooks, run top to bottom                                        *)
(***************************************************************************)
Next ==
    \/ model_train
    \/ likelihood_train
    \/ make_optimizer
    \/ make_mll
    \/ enter_use_toeplitz
    \/ optimizer_zero_grad
    \/ model_call
    \/ mll_call
    \/ call_return
    \/ numerical_retry
    \/ numerical_fatal
    \/ loss_backward
    \/ print_loss
    \/ optimizer_step
    \/ exit_with
    \/ model_eval
    \/ likelihood_eval
    \/ enter_fast_pred_var
    \/ print_mae

Spec == Init /\ [][Next]_vars


(***************************************************************************)
(* A caller that uses a constructed SpectralMixtureGPModel, its            *)
(* likelihood and its optimizer in any order                               *)
(***************************************************************************)
\* the caller catches the error of a failed call and goes on
handle_error ==
    /\ pc = "api"
    /\ err # "none"
    /\ err' = "none"
    /\ UNCHANGED <<kernel, printed, ds, raw, cg, kept, flow, pc, i, training, lik_training, settings, scopes,
                   grid, params, optimizer, grad, feat, projected, output,
                   loss, call, ncalls>>

InitAPI ==
    /\ flow = "api"
    /\ pc = "api"
    /\ optimizer = ParamGroups
    /\ InitCommon
    /\ lik_training = training

NextAPI ==
    \/ model_train
    \/ model_eval
    \/ enter_use_toeplitz
    \/ enter_fast_pred_var
    \/ exit_with
    \/ model_call
    \/ mll_call
    \/ call_return
    \/ numerical_retry
    \/ numerical_fatal
    \/ handle_error
    \/ optimizer_zero_grad
    \/ loss_backward
    \/ optimizer_step

SpecAPI == InitAPI /\ [][NextAPI]_vars


(***************************************************************************)
(* Predictions of a fitted model: an arbitrary caller switches modes,      *)
(* opens and closes settings blocks, calls the model, keeps a result it    *)
(* received, and may run further optimizer steps on the gradients that     *)
(* training left in the buffers.                                           *)
(***************************************************************************)
\* preds = model(test_x): the caller keeps the exact prediction it received
keep_result ==
    /\ pc = "api" /\ Idle
    /\ output.kind = "posterior"
    /\ output.variance = "exact"
    /\ kept # output
    /\ kept' = output
    /\ UNCHANGED <<kernel, printed, ds, raw, cg, flow, pc, i, training, lik_training, settings,
                   scopes, grid, params, optimizer, grad, feat, projected,
                   output, loss, call, ncalls, err>>

InitPredict ==
    /\ flow = "api"
    /\ pc = "api"
    /\ i = 0
    /\ training \in BOOLEAN
    /\ lik_training = training
    /\ settings \in [use_toeplitz : BOOLEAN, fast_pred_var : {FALSE}]
    /\ scopes = <<>>
    /\ grid = ConstructedGrid
    /\ params = [g \in ModelParams(flow) |-> 0]
    /\ optimizer = ParamGroups
    /\ \E n \in 0..MaxAccum : grad = [g \in ModelParams(flow) |-> n]
    /\ feat = NoFeat
    /\ projected = NoFeat
    /\ output = NoOutput
    /\ loss = NoLoss
    /\ call = NoCall
    /\ ncalls = 0
    /\ err = "none"
    /\ kept = NoOutput
    /\ cg = NoCG
    /\ raw = InitialRaw
    /\ ds = NoData
    /\ printed = <<>>
    /\ kernel = ConstructedKernel

NextPredict ==
    \/ model_train
    \/ model_eval
    \/ enter_use_toeplitz
    \/ enter_fast_pred_var
    \/ exit_with
    \/ model_call
    \/ call_return
    \/ numerical_retry
    \/ numerical_fatal
    \/ handle_error
    \/ optimizer_step
    \/ keep_result

SpecPredict == InitPredict /\ [][NextPredict]_vars

(***************************************************************************)
(* The conjugate-gradient solve of (K + s^2 I) x = b, as the engine's      *)
(* description gives it: iterate on matrix-vector products until the       *)
(* residual norm is below the tolerance or the iteration limit is hit.     *)
(* The residual after an iteration is any value; max_iter and tol are the  *)
(* configured limit and tolerance.                                         *)
(***************************************************************************)
CGOthers == <<flow, pc, i, training, lik_training, settings, scopes, grid,
              params, optimizer, grad, feat, projected, output, loss, call,
              ncalls, kept, raw, ds, printed, kernel>>

\* the solve starts from x = 0: the first residual is that of the system
cg_start ==
    /\ cg.state = "configured"
    /\ \E r \in 0..MaxResidual :
          cg' = [cg EXCEPT !.state = "running", !.res = r]
    /\ UNCHANGED <<err, CGOthers>>

\* one iteration: one more matrix-vector product, a new residual
cg_iterate ==
    /\ cg.state = "running"
    /\ cg.res >= cg.tol
    /\ cg.k < cg.max_iter
    /\ \E r \in 0..MaxResidual :
          cg' = [cg EXCEPT !.k = @ + 1, !.res = r]
    /\ UNCHANGED <<err, CGOthers>>

\* the residual norm is below the tolerance: the iterate is the solution
cg_converged ==
    /\ cg.state = "running"
    /\ cg.res < cg.tol
    /\ cg' = [cg EXCEPT !.state = "solved"]
    /\ UNCHANGED <<err, CGOthers>>

\* variant: at the iteration limit the last iterate is returned
cg_limit_returns ==
    /\ cg.state = "running"
    /\ cg.res >= cg.tol
    /\ cg.k = cg.max_iter
    /\ cg' = [cg EXCEPT !.state = "solved"]
    /\ UNCHANGED <<err, CGOthers>>

\* no convergence within max_iter iterations: NumericalError
cg_limit ==
    /\ cg.state = "running"
    /\ cg.res >= cg.tol
    /\ cg.k = cg.max_iter
    /\ cg' = [cg EXCEPT !.state = "failed"]
    /\ err' = "NumericalError"
    /\ UNCHANGED CGOthers

InitCG ==
    /\ flow = "api"
    /\ pc = "api"
    /\ i = 0
    /\ training = FALSE
    /\ lik_training = FALSE
    /\ settings = NoSettings
    /\ scopes = <<>>
    /\ grid = ConstructedGrid
    /\ params = [g \in ModelParams(flow) |-> 0]
    /\ optimizer = ParamGroups
    /\ grad = [g \in ModelParams(flow) |-> 0]
    /\ feat = NoFeat
    /\ projected = NoFeat
    /\ output = NoOutput
    /\ loss = NoLoss
    /\ call = NoCall
    /\ ncalls = 0
    /\ err = "none"
    /\ kept = NoOutput
    /\ raw = InitialRaw
    /\ ds = NoData
    /\ printed = <<>>
    /\ kernel = ConstructedKernel
    /\ \E m \in 1..MaxCGIter : \E t \in 1..MaxTol :
          cg = [state |-> "configured", max_iter |-> m, tol |-> t,
                k |-> 0, res |-> 0]

NextCG ==
    \/ cg_start
    \/ cg_iterate
    \/ cg_converged
    \/ cg_limit

SpecCG == InitCG /\ [][NextCG]_vars /\ WF_vars(NextCG)

(***************************************************************************)
(* The deep-kernel notebook with the kernel constructed on a grid of       *)
(* num_dims or num_dims + 1 dimensions, the feature extractor unchanged    *)
(***************************************************************************)
InitConfig ==
    /\ flow = "dkl"
    /\ pc = "model_train"
    /\ i = 0
    /\ training \in BOOLEAN
    /\ lik_training \in BOOLEAN
    /\ settings \in [use_toeplitz : BOOLEAN, fast_pred_var : {FALSE}]
    /\ scopes = <<>>
    /\ \E d \in {num_dims, num_dims + 1} :
          grid = [num_dims |-> d, grid_size |-> grid_size]
    /\ params = [g \in ModelParams(flow) |-> 0]
    /\ optimizer = <<>>
    /\ grad = [g \in ModelParams(flow) |-> 0]
    /\ feat = NoFeat
    /\ projected = NoFeat
    /\ output = NoOutput
    /\ loss = NoLoss
    /\ call = NoCall
    /\ ncalls = 0
    /\ err = "none"
    /\ kept = NoOutput
    /\ cg = NoCG
    /\ raw = InitialRaw
    /\ ds = NoData
    /\ printed = <<>>
    /\ kernel = ConstructedKernel

NextConfig ==
    \/ model_train
    \/ likelihood_train
    \/ make_optimizer
    \/ make_mll
    \/ enter_use_toeplitz
    \/ optimizer_zero_grad
    \/ model_call
    \/ kernel_dims_mismatch
    \/ mll_call
    \/ call_return
    \/ numerical_retry
    \/ numerical_fatal
    \/ loss_backward
    \/ print_loss
    \/ optimizer_step
    \/ exit_with
    \/ model_eval
    \/ likelihood_eval
    \/ enter_fast_pred_var
    \/ print_mae

SpecConfig == InitConfig /\ [][NextConfig]_vars

(***************************************************************************)
(* Positive hyperparameters: the optimizer moves raw values freely, the    *)
(* model uses softplus(raw) = ln(1 + e^raw).  softplus(r) is max(r, 0)     *)
(* plus ln(1 + e^-|r|), a real in (0, ln 2]: the value is kept as its      *)
(* whole part max(r, 0) and a mark for that positive remainder.            *)
(***************************************************************************)
\* variant: the raw value is used as it is
SoftplusIdentity(r) == [whole |-> r, rest |-> FALSE]

Softplus(r) == [whole |-> IF r > 0 THEN r ELSE 0, rest |-> TRUE]

StrictlyPositive(v) == v.whole > 0 \/ (v.whole = 0 /\ v.rest)

\* the values the kernel and the likelihood compute with
Effective == [p \in Constrained |-> Softplus(raw[p])]

\* an optimizer step, seen at the raw values: any values may result
raw_step ==
    /\ pc = "api" /\ Idle
    /\ \E v \in [Constrained -> RawValues] :
          /\ v # raw
          /\ raw' = v
    /\ UNCHANGED <<kernel, printed, ds, cg, kept, flow, pc, i, training, lik_training,
                   settings, scopes, grid, params, optimizer, grad, feat,
                   projected, output, loss, call, ncalls, err>>

InitRaw ==
    /\ flow = "api"
    /\ pc = "api"
    /\ i = 0
    /\ training = TRUE
    /\ lik_training = TRUE
    /\ settings = NoSettings
    /\ scopes = <<>>
    /\ grid = ConstructedGrid
    /\ params = [g \in ModelParams(flow) |-> 0]
    /\ optimizer = ParamGroups
    /\ grad = [g \in ModelParams(flow) |-> 0]
    /\ feat = NoFeat
    /\ projected = NoFeat
    /\ output = NoOutput
    /\ loss = NoLoss
    /\ call = NoCall
    /\ ncalls = 0
    /\ err = "none"
    /\ kept = NoOutput
    /\ cg = NoCG
    /\ raw = InitialRaw
    /\ ds = NoData
    /\ printed = <<>>
    /\ kernel = ConstructedKernel

NextRaw == raw_step

SpecRaw == InitRaw /\ [][NextRaw]_vars

(***************************************************************************)
(* The data cell of the deep-kernel notebook (part_000 lines 55-68).  A    *)
(* row of data is one input value and the target; the target of row k is  *)
(* k, so that a row can be told from every other row.                      *)
(***************************************************************************)
Datasets ==
    UNION {{[k \in 1..n |-> [x |-> xs[k], y |-> k]] : xs \in [1..n -> FeatVals]}
           : n \in 1..MaxN}

SeqMin(xs) == CHOOSE m \in {xs[k] : k \in DOMAIN xs} :
                 \A k \in DOMAIN xs : m <= xs[k]
SeqMax(xs) == CHOOSE m \in {xs[k] : k \in DOMAIN xs} :
                 \A k \in DOMAIN xs : m >= xs[k]

\* X = X - X.min(0)[0]; X = 2 * (X / X.max(0)[0]) - 1
NormalizeX(xs) ==
    LET shifted == [k \in DOMAIN xs |-> xs[k] - SeqMin(xs)]
    IN  [k \in DOMAIN xs |->
            [num |-> 2 * shifted[k] - SeqMax(shifted),
             den |-> SeqMax(shifted)]]

\* variant: the size of the training set is rounded up
TrainNRoundsUp(n) == (8 * n + 9) \div 10

\* train_n = int(floor(0.8*len(X)))
TrainN(n) == (8 * n) \div 10

\* the cell: load, normalize, split
split_data ==
    /\ ~ds.loaded
    /\ \E d \in Datasets :
          LET X == NormalizeX([k \in DOMAIN d |-> d[k].x])
              y == [k \in DOMAIN d |-> d[k].y]
              train_n == TrainN(Len(X))
          IN  ds' = [loaded |-> TRUE, data |-> d, X |-> X, y |-> y,
                     train_n |-> train_n,
                     train_x |-> SubSeq(X, 1, train_n),
                     train_y |-> SubSeq(y, 1, train_n),
                     test_x |-> SubSeq(X, train_n + 1, Len(X)),
                     test_y |-> SubSeq(y, train_n + 1, Len(y))]
    /\ UNCHANGED <<kernel, printed, raw, cg, kept, flow, pc, i, training, lik_training,
                   settings, scopes, grid, params, optimizer, grad, feat,
                   projected, output, loss, call, ncalls, err>>

InitSplit ==
    /\ flow = "dkl"
    /\ pc = "data"
    /\ i = 0
    /\ training = FALSE        \* no model has been constructed yet
    /\ lik_training = FALSE
    /\ settings = NoSettings
    /\ scopes = <<>>
    /\ grid = NoGrid
    /\ params = [g \in ModelParams(flow) |-> 0]
    /\ optimizer = <<>>
    /\ grad = [g \in ModelParams(flow) |-> 0]
    /\ feat = NoFeat
    /\ projected = NoFeat
    /\ output = NoOutput
    /\ loss = NoLoss
    /\ call = NoCall
    /\ ncalls = 0
    /\ err = "none"
    /\ kept = NoOutput
    /\ cg = NoCG
    /\ raw = InitialRaw
    /\ ds = NoData
    /\ printed = <<>>
    /\ kernel = NoKernel

NextSplit == split_data

SpecSplit == InitSplit /\ [][NextSplit]_vars

(***************************************************************************)
(* The spectral-mixture notebook alone, under a scheduler that always runs *)
(* the next statement                                                      *)
(***************************************************************************)
InitSM ==
    /\ flow = "sm"
    /\ pc = "model_train"
    /\ lik_training \in BOOLEAN
    /\ optimizer = <<>>
    /\ InitCommon

NextSM ==
    \/ model_train
    \/ likelihood_train
    \/ make_optimizer
    \/ make_mll
    \/ optimizer_zero_grad
    \/ model_call
    \/ mll_call
    \/ call_return
    \/ numerical_retry
    \/ numerical_fatal
    \/ loss_backward
    \/ print_loss
    \/ optimizer_step
    \/ model_eval
    \/ likelihood_eval
    \/ enter_fast_pred_var
    \/ exit_with

SpecLive == InitSM /\ [][NextSM]_vars /\ WF_vars(NextSM)

(***************************************************************************)
(* SpectralMixtureGPModel.__init__ (ipynb lines 81-85), run by            *)
(* model = SpectralMixtureGPModel(train_x, train_y, likelihood) at line   *)
(* 94, followed by the rest of the notebook                               *)
(***************************************************************************)
Constructing == {"init_super", "init_mean", "init_kernel", "init_from_data"}

BuildOthers == <<flow, i, training, lik_training, settings, scopes, grid,
                 params, optimizer, grad, feat, projected, output, loss, call,
                 ncalls, err, kept, cg, raw, ds, printed>>

\* super(SpectralMixtureGPModel, self).__init__(train_x, train_y, likelihood)
exact_gp_init ==
    /\ pc = "init_super" /\ Idle
    /\ pc' = After("init_super")
    /\ UNCHANGED <<kernel, BuildOthers>>

\* self.mean_module = gpytorch.means.ConstantMean()
make_mean_module ==
    /\ pc = "init_mean" /\ Idle
    /\ pc' = After("init_mean")
    /\ UNCHANGED <<kernel, BuildOthers>>

\* self.covar_module = gpytorch.kernels.SpectralMixtureKernel(num_mixtures=4)
make_covar_module ==
    /\ pc = "init_kernel" /\ Idle
    /\ kernel' = [built |-> TRUE, mixtures |-> num_mixtures, inits |-> 0]
    /\ pc' = After("init_kernel")
    /\ UNCHANGED BuildOthers

\* variant: __init__ leaves the kernel as it was constructed
initialize_from_data_skipped ==
    /\ pc = "init_from_data" /\ Idle
    /\ kernel.built
    /\ pc' = After("init_from_data")
    /\ UNCHANGED <<kernel, BuildOthers>>

\* self.covar_module.initialize_from_data(train_x, train_y)
initialize_from_data ==
    /\ pc = "init_from_data" /\ Idle
    /\ kernel.built
    /\ kernel' = [kernel EXCEPT !.inits = @ + 1]
    /\ pc' = After("init_from_data")
    /\ UNCHANGED BuildOthers

InitBuild ==
    /\ flow = "sm"
    /\ pc = "init_super"
    /\ i = 0
    /\ training \in BOOLEAN
    /\ lik_training \in BOOLEAN
    /\ settings \in [use_toeplitz : BOOLEAN, fast_pred_var : {FALSE}]
    /\ scopes = <<>>
    /\ grid = NoGrid
    /\ params = [g \in ModelParams(flow) |-> 0]
    /\ optimizer = <<>>
    /\ grad = [g \in ModelParams(flow) |-> 0]
    /\ feat = NoFeat
    /\ projected = NoFeat
    /\ output = NoOutput
    /\ loss = NoLoss
    /\ call = NoCall
    /\ ncalls = 0
    /\ err = "none"
    /\ kept = NoOutput
    /\ cg = NoCG
    /\ raw = InitialRaw
    /\ ds = NoData
    /\ printed = <<>>
    /\ kernel = NoKernel

NextBuild ==
    \/ exact_gp_init
    \/ make_mean_module
    \/ make_covar_module
    \/ initialize_from_data
    \/ NextSM

SpecBuild == InitBuild /\ [][NextBuild]_vars

(***************************************************************************)
(* Properties                                                              *)
(***************************************************************************)

\* C1: the mode is one of TRAIN and EVAL, and it changes only in a step
\* that is a call of model.train() or model.eval(): no model call, objective
\* evaluation, backward pass, optimizer step or settings block changes it.
ModeTwoState ==
    /\ [](training \in BOOLEAN /\ Mode \in {"TRAIN", "EVAL"})
    /\ [][training' # training => model_train \/ model_eval]_vars

\* C1 witness: in EVAL mode a prediction was made after an optimizer step
ModeTwoStateWitness ==
    /\ ~training
    /\ output.kind = "posterior"
    /\ \E g \in DOMAIN params : params[g] > 0
    /\ loss.set


\* C2: in both notebooks every objective evaluation runs while the model is
\* in TRAIN mode and every call on the test inputs runs while it is in EVAL
\* mode; a call in TRAIN mode returns the prior, a call in EVAL mode the
\* posterior.
TrainThenEval ==
    /\ call.op = "mll" => training
    /\ loss.set => loss.mode = "TRAIN"
    /\ call.op = "prior" => training
    /\ call.op = "posterior" => ~training
    /\ call.op \in {"prior", "posterior"} /\ call.x = "test_x" => ~training
    /\ output.x = "test_x" => output.kind = "posterior"
    /\ output.x = "train_x" => output.kind = "prior"

\* C2 witness: a notebook has trained and predicted
TrainThenEvalWitness ==
    /\ pc = "done"
    /\ loss.set /\ loss.mode = "TRAIN"
    /\ output.x = "test_x" /\ output.kind = "posterior"

\* C3: the hyperparameters change only in optimizer.step(); a step runs
\* while no call is in flight, after the forward pass, the loss and the
\* backward pass of its iteration have all read the values it replaces.
ParamsOnlyByStep ==
    /\ [][params' # params =>
            /\ optimizer_step
            /\ call.op = "none"
            /\ loss.set /\ loss.backward
            /\ output.w = params /\ loss.w = params /\ loss.bw = params]_vars
    /\ [](call.op = "mll" => output.w = params)
    /\ [](pc \in {"backward", "print", "step"} => loss.set /\ loss.w = output.w)
    /\ [](pc \in {"print", "step"} => loss.backward /\ loss.bw = loss.w)

\* C3 witness: a later iteration has run its backward pass on updated values
ParamsOnlyByStepWitness ==
    /\ pc = "step"
    /\ i > 0
    /\ \A g \in DOMAIN params : params[g] = i
    /\ loss.bw = params

\* C4: the inducing grid is the one the model was constructed with, in
\* every state of a run: training, mode switches and prediction leave it.
GridImmutable == grid = ConstructedGrid

\* C4 witness: the deep-kernel model has trained and predicted
GridImmutableWitness ==
    /\ flow = "dkl"
    /\ pc = "done"
    /\ output.kind = "posterior"
    /\ grid = [num_dims |-> 2, grid_size |-> 100]


JitterRetryBounded ==
    /\ [](call.attempt <= MaxRetries)
    /\ [][call.op # "none" /\ call'.op # "none" /\ call' # call =>
            /\ call'.attempt = call.attempt + 1
            /\ call'.jitter > call.jitter]_vars
    /\ [][err = "none" /\ err' # "none" => call.attempt = MaxRetries]_vars
    /\ (call.op \in {"mll", "posterior"}) ~> (call.op = "none")

\* C6 witness: the last retry of an objective call is running
JitterRetryBoundedWitness ==
    /\ call.op = "mll"
    /\ call.attempt = MaxRetries
    /\ call.jitter >= MaxRetries

\* C7: a posterior is computed with LOVE exactly when the caller made the
\* call inside a fast_pred_var block, with exact variance otherwise, and a
\* call that fails with an error produces no result.
ExplicitFastVariance ==
    /\ [](output.kind = "posterior" =>
            (output.variance = "love" <=> output.in_fast_block))
    /\ [](output.kind = "posterior" => output.variance \in {"love", "exact"})
    /\ [][err = "none" /\ err' # "none" => output' = output]_vars
    /\ [][output' # output => err' = "none"]_vars

\* C7 witness: a LOVE result was returned inside a fast_pred_var block and
\* a later call has failed
ExplicitFastVarianceWitness ==
    /\ output.kind = "posterior"
    /\ output.variance = "love"
    /\ output.in_fast_block
    /\ err = "NumericalError"

FeaturesInBounds ==
    HasExtractor /\ call.op \in {"prior", "posterior"} =>
        \A c \in Cols :
            /\ \A r \in DOMAIN projected :
                  QGeqMinusOne(projected[r][c]) /\ QLeqOne(projected[r][c])
            /\ \E r \in DOMAIN projected : QIsMinusOne(projected[r][c])
            /\ \E r \in DOMAIN projected : QIsOne(projected[r][c])

\* C10: the rescaled features of a call are computed from the minimum and
\* maximum of that call's own batch, in TRAIN and in EVAL mode alike, and
\* nothing of a batch is kept once the call has returned.
RescaleOwnBatch ==
    /\ call.op \in {"none", "mll"} => feat = NoFeat /\ projected = NoFeat
    /\ HasExtractor /\ call.op \in {"prior", "posterior"} =>
          /\ DOMAIN projected = DOMAIN feat
          /\ \A r \in DOMAIN feat : \A c \in Cols :
                LET col == {feat[k][c] : k \in DOMAIN feat}
                    lo == CHOOSE m \in col : \A v \in col : m <= v
                    hi == CHOOSE m \in col : \A v \in col : m >= v
                IN  /\ projected[r][c].den = hi - lo
                    /\ projected[r][c].num = 2 * (feat[r][c] - lo) - (hi - lo)

\* C10 witness: a prediction in EVAL mode on a batch whose minimum is not
\* zero, after training
RescaleOwnBatchWitness ==
    /\ HasExtractor
    /\ call.op = "posterior"
    /\ i = training_iterations
    /\ \E c \in Cols :
          /\ \A r \in DOMAIN feat : feat[r][c] > 0
          /\ \E r \in DOMAIN projected : QIsOne(projected[r][c])
          /\ \E r \in DOMAIN projected : QIsMinusOne(projected[r][c])

CGTerminates ==
    /\ [](cg.k <= cg.max_iter)
    /\ [][cg.state = "running" /\ cg'.k # cg.k =>
            cg.res >= cg.tol /\ cg'.k = cg.k + 1]_vars
    /\ [][cg.state = "running" /\ cg.res < cg.tol =>
            cg'.state = "solved" /\ cg'.k = cg.k /\ cg'.res = cg.res]_vars
    /\ [](cg.state = "solved" => cg.res < cg.tol /\ err = "none")
    /\ [](cg.state = "failed" =>
            cg.k = cg.max_iter /\ cg.res >= cg.tol /\ err = "NumericalError")
    /\ [](err = "NumericalError" => cg.state = "failed")
    /\ (cg.state = "running") ~> (cg.state \in {"solved", "failed"})

\* C13 witness: a solve that ran out of iterations above the tolerance,
\* with more than one iteration allowed
CGTerminatesWitness ==
    /\ cg.state = "failed"
    /\ cg.max_iter > 1
    /\ cg.k = cg.max_iter
    /\ cg.res >= cg.tol
    /\ err = "NumericalError"

AfterTraining ==
    {"exit_train_with", "model_eval", "likelihood_eval", "with_toeplitz_off",
     "with_fast", "predict", "exit_pred_with", "mae", "done"}

EffectivePositive ==
    /\ \A p \in Constrained : StrictlyPositive(Effective[p])
    /\ err = "none"

\* C17 witness: steps have left a negative raw length-scale, a zero raw
\* output scale and a positive raw noise
EffectivePositiveWitness ==
    /\ raw["lengthscale"] < 0
    /\ raw["outputscale"] = 0
    /\ raw["noise"] > 0
    /\ StrictlyPositive(Effective["lengthscale"])

\* C18: after the data cell the training set is the first floor(0.8*n)
\* rows and the test set the remaining rows, in order: the two sets are
\* disjoint and together hold every row once, every input row is paired
\* with its own target, and the training set is 80% of the rows rounded
\* down.
SplitPartition ==
    ds.loaded =>
        LET n == Len(ds.data)
            X == NormalizeX([k \in 1..n |-> ds.data[k].x])
        IN  /\ 5 * ds.train_n <= 4 * n
            /\ 4 * n < 5 * (ds.train_n + 1)
            /\ Len(ds.train_x) = ds.train_n
            /\ Len(ds.train_y) = ds.train_n
            /\ Len(ds.test_x) = n - ds.train_n
            /\ Len(ds.test_y) = n - ds.train_n
            /\ \A k \in 1..ds.train_n :
                  ds.train_x[k] = X[k] /\ ds.train_y[k] = ds.data[k].y
            /\ \A k \in 1..(n - ds.train_n) :
                  /\ ds.test_x[k] = X[ds.train_n + k]
                  /\ ds.test_y[k] = ds.data[ds.train_n + k].y
            /\ {ds.train_y[k] : k \in DOMAIN ds.train_y}
                  \cap {ds.test_y[k] : k \in DOMAIN ds.test_y} = {}
            /\ {ds.train_y[k] : k \in DOMAIN ds.train_y}
                  \cup {ds.test_y[k] : k \in DOMAIN ds.test_y}
                  = {ds.data[k].y : k \in 1..n}

\* C18 witness: a dataset of five rows with different inputs has been split
\* into four training rows and one test row
SplitPartitionWitness ==
    /\ ds.loaded
    /\ Len(ds.data) = 5
    /\ ds.train_n = 4
    /\ Len(ds.test_y) = 1
    /\ ds.test_y[1] = 5
    /\ \E j, k \in DOMAIN ds.data : ds.data[j].x # ds.data[k].x

\* C19: in both notebooks a training iteration makes one forward pass, one
\* objective call, one backward pass and one optimizer step; every
\* parameter group of the model is in exactly one param group of the
\* optimizer, and a step updates every one of them exactly once.
OncePerIteration ==
    /\ [][call.op = "none" /\ call'.op = "prior" =>
            /\ pc = "forward"
            /\ ncalls = 0
            /\ \A g \in DOMAIN grad : grad[g] = 0]_vars
    /\ [][call.op = "none" /\ call'.op = "mll" =>
            pc = "loss" /\ ncalls = 0 /\ ncalls' = 1]_vars
    /\ [][grad' # grad /\ pc # "zero_grad" =>
            /\ pc = "backward"
            /\ ncalls = 1
            /\ \A g \in DOMAIN grad : grad[g] = 0 /\ grad'[g] = 1]_vars
    /\ [][i' # i =>
            /\ pc = "step"
            /\ i' = i + 1
            /\ ncalls = 1
            /\ \A g \in DOMAIN params :
                  grad[g] = 1 /\ params'[g] = params[g] + 1]_vars
    /\ [][params' # params => i' = i + 1]_vars
    /\ [](optimizer # <<>> =>
            \A g \in ModelParams(flow) :
                Cardinality({k \in DOMAIN optimizer : g \in optimizer[k]}) = 1)
    /\ [](DOMAIN params = ModelParams(flow))

\* C19 witness: the last iteration of the spectral-mixture notebook is
\* about to make its step
OncePerIterationWitness ==
    /\ flow = "sm"
    /\ pc = "step"
    /\ i = training_iter - 1
    /\ ncalls = 1
    /\ \A g \in DOMAIN grad : grad[g] = 1 /\ params[g] = i

InitializedBeforeTraining ==
    /\ [](kernel.inits <= 1)
    /\ [](kernel.built => kernel.mixtures = num_mixtures)
    /\ [](pc \notin Constructing => kernel.built /\ kernel.inits = 1)
    /\ [](call.op # "none" \/ ncalls > 0 \/ loss.set \/ i > 0
            \/ (\E g \in DOMAIN params : params[g] > 0)
          => kernel.inits = 1)
    /\ [][kernel' # kernel => pc \in Constructing /\ pc' \in Constructing \cup {"model_train"}]_vars
    /\ [][kernel'.inits # kernel.inits => initialize_from_data /\ kernel.built]_vars

\* C21 witness: the first optimizer step is about to be made on the
\* kernel that construction initialized
InitializedBeforeTrainingWitness ==
    /\ flow = "sm"
    /\ pc = "step"
    /\ i = 0
    /\ loss.backward
    /\ kernel.built /\ kernel.inits = 1

\* C22: in the training loops optimizer.zero_grad() clears every gradient
\* before the backward pass, nothing changes the gradients between the
\* backward pass and the optimizer step, and the gradient a step applies
\* is one backward pass of the loss of that same iteration.
GradientOfThisIteration ==
    /\ [][pc = "zero_grad" /\ pc' # pc =>
            \A g \in DOMAIN grad : grad'[g] = 0]_vars
    /\ [](pc \in {"forward", "loss", "backward"} =>
            \A g \in DOMAIN grad : grad[g] = 0)
    /\ [][(pc \in {"print", "step"}) => (grad' = grad)]_vars
    /\ [](pc \in {"print", "step"} =>
            \A g \in DOMAIN grad :
                /\ grad[g] = 1
                /\ loss.bw[g] = i
                /\ loss.w[g] = i
                /\ params[g] = i)

\* C22 witness: a later iteration of the deep-kernel loop is about to step
\* with the gradient of one backward pass, the earlier ones cleared
GradientOfThisIterationWitness ==
    /\ flow = "dkl"
    /\ pc = "step"
    /\ i = 2
    /\ \A g \in DOMAIN grad : grad[g] = 1 /\ loss.bw[g] = 2

\* the statements of one training iteration
TrainingLoop == {"zero_grad", "forward", "loss", "backward", "print", "step"}

====
